---- MODULE Spec2Model ----
(***************************************************************************)
(* Daily IPO monitor (ipo_monitor.py): one run of main, which fetches the  *)
(* day's IPO calendar, filters it against MIN_OFFER_AMOUNT, renders the    *)
(* report and sends it through one SMTP session.                           *)
(*                                                                         *)
(* Python values are tagged tuples: <<"none">> is None, <<"num", n>> an    *)
(* int, <<"str", s>> a str whose text s is a sequence of characters.       *)
(* A dict is a function from the keys it holds to values.                  *)
(***************************************************************************)
EXTENDS Integers, Sequences, FiniteSets, TLC

VARIABLES pc, all_ipos, qualifying_ipos, subject, body, msg, smtp_log,
          success, smtp_error, exit_status, console

vars == <<pc, all_ipos, qualifying_ipos, subject, body, msg, smtp_log,
          success, smtp_error, exit_status, console>>

\* Longest calendar drawn from SampleEvents.
MaxEvents == 3

MIN_OFFER_AMOUNT == 200000000

---------------------------------------------------------------------------
\* Python values

None == <<"none">>

Num(n) == <<"num", n>>

Str(s) == <<"str", s>>

NA == Str(<<"N", "/", "A">>)

\* bool(v) for the value kinds above
Truthy(v) ==
    CASE v[1] = "none" -> FALSE
      [] v[1] = "num"  -> v[2] # 0
      [] v[1] = "str"  -> v[2] # <<>>

\* dict.get(key, default)
Get(d, key, default) == IF key \in DOMAIN d THEN d[key] ELSE default

---------------------------------------------------------------------------
\* The upstream calendar: what response.json()["ipoCalendar"] can hold

RawKeys == {"symbol", "name", "exchange", "price", "numberOfShares",
            "totalSharesValue", "status", "date"}

Absent == <<"absent">>

MEVOU == Str(<<"M", "E", "V", "O", "U">>)
MUZEU == Str(<<"M", "U", "Z", "E", "U">>)
TESTIPO == Str(<<"T", "E", "S", "T", "I", "P", "O">>)
NasdaqGlobal == Str(<<"N", "A", "S", "D", "A", "Q">>)
NYSE == Str(<<"N", "Y", "S", "E">>)
Price10 == Str(<<"1", "0", ".", "0", "0">>)
Price25 == Str(<<"2", "5", ".", "0", "0">>)
Expected == Str(<<"e", "x", "p", "e", "c", "t", "e", "d">>)
Priced == Str(<<"p", "r", "i", "c", "e", "d">>)
Date0130 == Str(<<"2", "0", "2", "6", "-", "0", "1", "-", "3", "0">>)
NameMEvo == Str(<<"M", " ", "E", "v", "o">>)
NameMuzero == Str(<<"M", "u", "z", "e", "r", "o">>)
NameTest == Str(<<"T", "e", "s", "t">>)

\* A raw event from one option per key; a key whose option is Absent is
\* not in the dict.
MkEvent(opt) == [k \in {x \in RawKeys : opt[x] # Absent} |-> opt[k]]

FullEvent(sy, na, ex, pr, sh, tv, st) ==
    MkEvent([symbol |-> sy, name |-> na, exchange |-> ex, price |-> pr,
             numberOfShares |-> sh, totalSharesValue |-> tv, status |-> st,
             date |-> Date0130])

\* The three records of MOCK_IPO_DATA
MockMEVOU == FullEvent(MEVOU, NameMEvo, NasdaqGlobal, Price10,
                       Num(27000000), Num(270000000), Expected)
MockMUZEU == FullEvent(MUZEU, NameMuzero, NasdaqGlobal, Price10,
                       Num(17500000), Num(175000000), Expected)
MockTESTIPO == FullEvent(TESTIPO, NameTest, NYSE, Price25,
                         Num(20000000), Num(500000000), Priced)

MOCK_IPO_DATA == <<MockMEVOU, MockMUZEU, MockTESTIPO>>

\* Events around the threshold and with fields missing or null
SampleEvents ==
    {MockMEVOU, MockMUZEU, MockTESTIPO,
     [MockMUZEU EXCEPT !["totalSharesValue"] = Num(MIN_OFFER_AMOUNT)],
     [MockMUZEU EXCEPT !["totalSharesValue"] = Num(MIN_OFFER_AMOUNT - 1)],
     [MockMUZEU EXCEPT !["totalSharesValue"] = Num(0)],
     [MockMUZEU EXCEPT !["totalSharesValue"] = None],
     [k \in RawKeys \ {"totalSharesValue"} |-> MockTESTIPO[k]],
     [k \in RawKeys \ {"numberOfShares"} |-> MockTESTIPO[k]],
     [k \in RawKeys \ {"symbol"} |-> MockMEVOU[k]],
     [k \in {"totalSharesValue"} |-> Num(270000000)],
     [MockMEVOU EXCEPT !["numberOfShares"] = None]}

\* Every combination of present, absent and null fields for a single event
AllRawEvents ==
    { MkEvent([symbol |-> sy, name |-> na, exchange |-> ex, price |-> pr,
               numberOfShares |-> sh, totalSharesValue |-> tv, status |-> st,
               date |-> da]) :
        sy \in {Absent, None, MEVOU, TESTIPO},
        na \in {Absent, NameMEvo},
        ex \in {Absent, NYSE},
        pr \in {Absent, Price10},
        sh \in {Absent, None, Num(27000000)},
        tv \in {Absent, None, Num(0), Num(175000000),
                Num(MIN_OFFER_AMOUNT - 1), Num(MIN_OFFER_AMOUNT),
                Num(270000000), Num(500000000)},
        st \in {Absent, Expected},
        da \in {Absent, Date0130} }

\* The calendars a fetch can return
Calendars ==
    UNION {[1..n -> SampleEvents] : n \in 0..MaxEvents}
      \cup {<<e>> : e \in AllRawEvents}

---------------------------------------------------------------------------
\* filter_large_ipos

\* Mutant: the value is also read from an already-normalized record
TotalValueOrOffer(ipo) ==
    IF "totalSharesValue" \in DOMAIN ipo THEN ipo["totalSharesValue"]
    ELSE Get(ipo, "offer_amount", Num(0))

\* ipo.get("totalSharesValue", 0)
TotalValue(ipo) == Get(ipo, "totalSharesValue", Num(0))

\* Mutant: a strict comparison
MeetsThresholdStrict(total_value) ==
    Truthy(total_value) /\ total_value[1] = "num"
                        /\ total_value[2] > MIN_OFFER_AMOUNT

\* total_value and total_value >= MIN_OFFER_AMOUNT
\* (the calendar carries a JSON number or null under this key)
MeetsThreshold(total_value) ==
    Truthy(total_value) /\ total_value[1] = "num"
                        /\ total_value[2] >= MIN_OFFER_AMOUNT

\* Mutant: the share count is copied without a default
NormalizeSharesUndefaulted(ipo, total_value) ==
    [symbol       |-> Get(ipo, "symbol", NA),
     name         |-> Get(ipo, "name", NA),
     exchange     |-> Get(ipo, "exchange", NA),
     price        |-> Get(ipo, "price", NA),
     shares       |-> Get(ipo, "numberOfShares", None),
     offer_amount |-> total_value,
     status       |-> Get(ipo, "status", NA),
     date         |-> Get(ipo, "date", NA)]

\* The dict literal appended for a qualifying event
Normalize(ipo, total_value) ==
    [symbol       |-> Get(ipo, "symbol", NA),
     name         |-> Get(ipo, "name", NA),
     exchange     |-> Get(ipo, "exchange", NA),
     price        |-> Get(ipo, "price", NA),
     shares       |-> Get(ipo, "numberOfShares", NA),
     offer_amount |-> total_value,
     status       |-> Get(ipo, "status", NA),
     date         |-> Get(ipo, "date", NA)]

\* Mutant: the record is inserted at the front
PrependRecord(qualifying, record) == <<record>> \o qualifying

\* qualifying_ipos.append(record)
AppendRecord(qualifying, record) == Append(qualifying, record)

RECURSIVE FilterLoop(_, _, _)
FilterLoop(ipo_list, i, qualifying) ==
    IF i > Len(ipo_list) THEN qualifying
    ELSE LET ipo == ipo_list[i]
             total_value == TotalValue(ipo)
         IN  FilterLoop(ipo_list, i + 1,
                 IF MeetsThreshold(total_value)
                 THEN AppendRecord(qualifying, Normalize(ipo, total_value))
                 ELSE qualifying)

filter_large_ipos(ipo_list) == FilterLoop(ipo_list, 1, <<>>)

---------------------------------------------------------------------------
\* String formatting

DigitChars == <<"0", "1", "2", "3", "4", "5", "6", "7", "8", "9">>

\* str(n) for n >= 0
RECURSIVE Decimal(_)
Decimal(n) ==
    IF n < 10 THEN <<DigitChars[n + 1]>>
    ELSE Decimal(n \div 10) \o <<DigitChars[(n % 10) + 1]>>

\* The "," format option on a digit string: a comma before every group of
\* three digits counted from the right
RECURSIVE Grouped(_)
Grouped(digits) ==
    IF Len(digits) <= 3 THEN digits
    ELSE Grouped(SubSeq(digits, 1, Len(digits) - 3)) \o <<",">>
             \o SubSeq(digits, Len(digits) - 2, Len(digits))

\* f"{v}"
FormatPlain(v) ==
    CASE v[1] = "str"  -> v[2]
      [] v[1] = "num"  -> Decimal(v[2])
      [] v[1] = "none" -> <<"N", "o", "n", "e">>

\* f"{v:,}": an int is grouped; a str raises ValueError ("Cannot specify
\* ',' with 's'"); None raises TypeError (unsupported format string)
FormatComma(v) ==
    CASE v[1] = "num"  -> [raised |-> FALSE, text |-> Grouped(Decimal(v[2]))]
      [] v[1] = "str"  -> [raised |-> TRUE, error |-> "ValueError"]
      [] v[1] = "none" -> [raised |-> TRUE, error |-> "TypeError"]

\* f"${MIN_OFFER_AMOUNT:,}"
ThresholdText == <<"$">> \o FormatComma(Num(MIN_OFFER_AMOUNT)).text

---------------------------------------------------------------------------
\* format_email_body

\* The empty-state document
EmptyTemplate == [template |-> "empty", threshold |-> ThresholdText]

\* One <tr>: its seven cells, evaluated left to right
TableRow(ipo) ==
    LET shares == FormatComma(ipo.shares)
        offer  == FormatComma(ipo.offer_amount)
    IN  IF shares.raised THEN shares
        ELSE IF offer.raised THEN offer
        ELSE [raised |-> FALSE,
              cells  |-> [ticker       |-> FormatPlain(ipo.symbol),
                          name         |-> FormatPlain(ipo.name),
                          exchange     |-> FormatPlain(ipo.exchange),
                          price        |-> <<"$">> \o FormatPlain(ipo.price),
                          shares       |-> shares.text,
                          offer_amount |-> <<"$">> \o offer.text,
                          status       |-> FormatPlain(ipo.status)]]

\* rows = ""; for ipo in ipos: rows += ...
RECURSIVE BuildRows(_, _, _)
BuildRows(ipos, i, rows) ==
    IF i > Len(ipos) THEN [raised |-> FALSE, rows |-> rows]
    ELSE LET row == TableRow(ipos[i])
         IN  IF row.raised THEN row
             ELSE BuildRows(ipos, i + 1, Append(rows, row.cells))

\* ', '.join(items): every item must be a str, otherwise TypeError
RECURSIVE Join(_, _, _)
Join(items, i, text) ==
    IF i > Len(items) THEN [raised |-> FALSE, text |-> text]
    ELSE IF items[i][1] # "str" THEN [raised |-> TRUE, error |-> "TypeError"]
    ELSE Join(items, i + 1,
              IF i = 1 THEN items[i][2]
              ELSE text \o <<",", " ">> \o items[i][2])

\* [ipo['symbol'] for ipo in ipos]
SymbolsOf(ipos) == [i \in 1..Len(ipos) |-> ipos[i].symbol]

\* The populated document
PopulatedTemplate(ipos) ==
    LET built == BuildRows(ipos, 1, <<>>)
    IN  IF built.raised THEN [template |-> "raised", error |-> built.error]
        ELSE LET summary == Join(SymbolsOf(ipos), 1, <<>>)
             IN  IF summary.raised
                 THEN [template |-> "raised", error |-> summary.error]
                 ELSE [template  |-> "populated",
                       count     |-> Decimal(Len(ipos)),
                       threshold |-> ThresholdText,
                       rows      |-> built.rows,
                       summary   |-> summary.text]

\* Mutant: the empty-list branch is missing
format_email_body_table_only(ipos) == PopulatedTemplate(ipos)

format_email_body(ipos) ==
    IF ipos = <<>> THEN EmptyTemplate ELSE PopulatedTemplate(ipos)

---------------------------------------------------------------------------
\* One run of main

Init ==
    /\ pc = "start"
    /\ all_ipos = <<>>
    /\ qualifying_ipos = <<>>
    /\ subject = <<>>
    /\ body = [template |-> "unset"]
    /\ msg = [built |-> FALSE]
    /\ smtp_log = <<>>
    /\ success = "unset"
    /\ smtp_error = "none"
    /\ exit_status = -1
    /\ console = <<>>

\* all_ipos = get_todays_ipos(): a RequestException degrades to [], any
\* other outcome is the calendar of the response
get_todays_ipos ==
    /\ pc = "start"
    /\ \/ /\ all_ipos' = <<>>
          /\ console' = Append(console, "Error fetching IPO data")
       \/ /\ \E calendar \in Calendars : all_ipos' = calendar
          /\ console' = console
    /\ pc' = "filter"
    /\ UNCHANGED <<smtp_error, qualifying_ipos, subject, body, msg, smtp_log, success,
                   exit_status>>

\* qualifying_ipos = filter_large_ipos(all_ipos)
main_filter ==
    /\ pc = "filter"
    /\ qualifying_ipos' = filter_large_ipos(all_ipos)
    /\ pc' = "display"
    /\ UNCHANGED <<smtp_error, all_ipos, subject, body, msg, smtp_log, success,
                   exit_status, console>>

\* The console line of one qualifying IPO
DisplayLine(ipo) == FormatComma(ipo.offer_amount)

\* if qualifying_ipos: print each one
main_display ==
    /\ pc = "display"
    /\ IF \E i \in 1..Len(qualifying_ipos) :
              DisplayLine(qualifying_ipos[i]).raised
       THEN /\ pc' = "crashed"
            /\ console' = Append(console, "Traceback")
       ELSE /\ pc' = "format"
            /\ console' = IF qualifying_ipos # <<>>
                          THEN Append(console, "Qualifying IPOs:")
                          ELSE console
    /\ UNCHANGED <<smtp_error, all_ipos, qualifying_ipos, subject, body, msg, smtp_log,
                   success, exit_status>>

\* subject = ...; body = format_email_body(qualifying_ipos): an exception
\* raised while rendering leaves main uncaught
main_format ==
    /\ pc = "format"
    /\ subject' = Decimal(Len(qualifying_ipos))
    /\ LET rendered == format_email_body(qualifying_ipos)
       IN  IF rendered.template = "raised"
           THEN /\ pc' = "crashed"
                /\ body' = body
                /\ console' = Append(console, "Traceback")
           ELSE /\ pc' = "send_email"
                /\ body' = rendered
                /\ console' = console
    /\ UNCHANGED <<smtp_error, all_ipos, qualifying_ipos, msg, smtp_log, success,
                   exit_status>>

---------------------------------------------------------------------------
\* send_email

\* msg = MIMEMultipart(...) with From, To, Subject and the HTML part
send_email_build ==
    /\ pc = "send_email"
    /\ msg' = [built |-> TRUE, from |-> "EMAIL_ADDRESS",
               to |-> "EMAIL_ADDRESS", subject |-> subject, html |-> body]
    /\ pc' = "smtp_connect"
    /\ UNCHANGED <<smtp_error, all_ipos, qualifying_ipos, subject, body, smtp_log,
                   success, exit_status, console>>

\* Mutant: the session is not scoped by a with block
LeaveSessionOpen(log) == log

\* Leaving the with block closes the session
CloseSession(log) == Append(log, "close")

\* except smtplib.SMTPAuthenticationError: ... return False
AuthFailed ==
    /\ console' = console \o <<"Email authentication failed",
                               "use an App Password">>
    /\ smtp_error' = "SMTPAuthenticationError"
    /\ success' = "False"
    /\ pc' = "send_returned"

\* except Exception as e: ... return False
SendFailed ==
    /\ console' = Append(console, "Error sending email")
    /\ smtp_error' = "Exception"
    /\ success' = "False"
    /\ pc' = "send_returned"

\* with smtplib.SMTP(SMTP_SERVER, SMTP_PORT) as server
smtp_connect ==
    /\ pc = "smtp_connect"
    /\ \/ /\ smtp_log' = Append(smtp_log, "open")
          /\ pc' = "smtp_starttls"
          /\ UNCHANGED <<success, smtp_error, console>>
       \/ /\ smtp_log' = smtp_log
          /\ SendFailed
    /\ UNCHANGED <<all_ipos, qualifying_ipos, subject, body, msg,
                   exit_status>>

\* server.starttls()
smtp_starttls ==
    /\ pc = "smtp_starttls"
    /\ \/ /\ smtp_log' = Append(smtp_log, "starttls")
          /\ pc' = "smtp_login"
          /\ UNCHANGED <<success, smtp_error, console>>
       \/ /\ smtp_log' = CloseSession(smtp_log)
          /\ SendFailed
    /\ UNCHANGED <<all_ipos, qualifying_ipos, subject, body, msg,
                   exit_status>>

\* server.login(EMAIL_ADDRESS, EMAIL_PASSWORD)
smtp_login ==
    /\ pc = "smtp_login"
    /\ \/ /\ smtp_log' = Append(smtp_log, "login")
          /\ pc' = "smtp_send_message"
          /\ UNCHANGED <<success, smtp_error, console>>
       \/ /\ smtp_log' = CloseSession(smtp_log)
          /\ AuthFailed
       \/ /\ smtp_log' = CloseSession(smtp_log)
          /\ SendFailed
    /\ UNCHANGED <<all_ipos, qualifying_ipos, subject, body, msg,
                   exit_status>>

\* server.send_message(msg)
smtp_send_message ==
    /\ pc = "smtp_send_message"
    /\ \/ /\ smtp_log' = Append(smtp_log, "send_message")
          /\ pc' = "smtp_exit"
          /\ UNCHANGED <<success, smtp_error, console>>
       \/ /\ smtp_log' = CloseSession(smtp_log)
          /\ SendFailed
    /\ UNCHANGED <<all_ipos, qualifying_ipos, subject, body, msg,
                   exit_status>>

\* End of the with block after a send: the session is closed; QUIT
\* answered as expected lets send_email print and return True, any other
\* answer raises into except Exception
smtp_exit ==
    /\ pc = "smtp_exit"
    /\ smtp_log' = CloseSession(smtp_log)
    /\ \/ /\ console' = Append(console, "Email sent successfully")
          /\ smtp_error' = smtp_error
          /\ success' = "True"
          /\ pc' = "send_returned"
       \/ SendFailed
    /\ UNCHANGED <<all_ipos, qualifying_ipos, subject, body, msg,
                   exit_status>>

\* Mutant: the send result is ignored
ExitCodeZero(ok) == 0

\* return 0 if success else 1
ExitCode(ok) == IF ok = "True" THEN 0 ELSE 1

\* The banner and the return of main
main_return ==
    /\ pc = "send_returned"
    /\ console' = Append(console,
                         IF success = "True"
                         THEN "IPO monitoring completed successfully!"
                         ELSE "IPO monitoring completed with errors.")
    /\ exit_status' = ExitCode(success)
    /\ pc' = "done"
    /\ UNCHANGED <<smtp_error, all_ipos, qualifying_ipos, subject, body, msg, smtp_log,
                   success>>

Next ==
    \/ get_todays_ipos
    \/ main_filter
    \/ main_display
    \/ main_format
    \/ send_email_build
    \/ smtp_connect
    \/ smtp_starttls
    \/ smtp_login
    \/ smtp_send_message
    \/ smtp_exit
    \/ main_return

Spec == Init /\ [][Next]_vars

---------------------------------------------------------------------------
\* Properties

\* The filter has run on all_ipos
Filtered == pc \notin {"start", "filter"}

\* main has ended: it returned, or an exception left it
Ended == pc \in {"done", "crashed"}

\* The inclusion rule as the specification words it: the value is present,
\* truthy and numerically at least 200,000,000
QualifiesAsSpecified(raw) ==
    /\ "totalSharesValue" \in DOMAIN raw
    /\ raw["totalSharesValue"][1] = "num"
    /\ raw["totalSharesValue"][2] # 0
    /\ raw["totalSharesValue"][2] >= 200000000

\* The indices of the qualifying events of a list, ascending
QualifyingIndices(list) ==
    LET Test(i) == QualifiesAsSpecified(list[i])
    IN  SelectSeq([i \in 1..Len(list) |-> i], Test)

\* Output key and the raw key it is read from
FieldSource ==
    {<<"symbol", "symbol">>, <<"name", "name">>, <<"exchange", "exchange">>,
     <<"price", "price">>, <<"shares", "numberOfShares">>,
     <<"status", "status">>, <<"date", "date">>}

OutKeys == {"symbol", "name", "exchange", "price", "shares", "offer_amount",
            "status", "date"}

\* record is the normalized form of raw
DerivedFrom(record, raw) ==
    /\ DOMAIN record = OutKeys
    /\ record["offer_amount"] = raw["totalSharesValue"]
    /\ \A f \in FieldSource :
          record[f[1]] = IF f[2] \in DOMAIN raw THEN raw[f[2]] ELSE NA

\* The text "$200,000,000"
Threshold200M ==
    <<"$", "2", "0", "0", ",", "0", "0", "0", ",", "0", "0", "0">>

\* The tokens of a text separated by ", "
RECURSIVE SplitTokens(_, _, _, _)
SplitTokens(text, i, current, tokens) ==
    IF i > Len(text) THEN Append(tokens, current)
    ELSE IF text[i] = "," /\ i < Len(text) /\ text[i + 1] = " "
         THEN SplitTokens(text, i + 2, <<>>, Append(tokens, current))
         ELSE SplitTokens(text, i + 1, Append(current, text[i]), tokens)

\* Positions of a step in the mail-session log
Pos(tag) == {i \in 1..Len(smtp_log) : smtp_log[i] = tag}

C2_AlwaysAttemptsSend == Ended => msg.built

\* C3: when main returns, its status is 0 iff send_email returned True and
\* 1 otherwise; after an SMTPAuthenticationError the status is 1 and the
\* authentication guidance is on the console, whatever the number of
\* qualifying IPOs. Before main returns there is no status.
C3_ExitStatus ==
    /\ pc = "done" =>
          /\ exit_status \in {0, 1}
          /\ exit_status = 0 <=> success = "True"
          /\ success \in {"True", "False"}
    /\ (pc = "done" /\ smtp_error = "SMTPAuthenticationError") =>
          /\ exit_status = 1
          /\ \E i \in 1..Len(console) : console[i] = "use an App Password"
    /\ pc # "done" => exit_status = -1

\* C3 witness: a run with qualifying IPOs ended after the relay rejected
\* the credentials.
C3_Witness ==
    /\ pc = "done"
    /\ smtp_error = "SMTPAuthenticationError"
    /\ Len(qualifying_ipos) >= 1
    /\ exit_status = 1

\* C4 (as claimed): filtering the filter's result returns it unchanged.
C4_Idempotent ==
    Filtered => filter_large_ipos(qualifying_ipos) = qualifying_ipos

\* C4 (amended): filtering the filter's result returns the empty list, as
\* the records hold the value under offer_amount and have no
\* totalSharesValue; every retained offer_amount is already >= the
\* threshold.
C4_RefilterIsEmpty ==
    Filtered =>
      /\ filter_large_ipos(qualifying_ipos) = <<>>
      /\ \A k \in 1..Len(qualifying_ipos) :
            /\ "totalSharesValue" \notin DOMAIN qualifying_ipos[k]
            /\ qualifying_ipos[k].offer_amount[2] >= 200000000

\* C4 witness: the filter has produced a non-empty result.
C4_Witness == pc = "display" /\ Len(qualifying_ipos) = 2

\* C5: the output is the normalized qualifying events in input order, one
\* record per qualifying event, duplicates included; values
\* [270,000,000; 175,000,000; 500,000,000] give the records of the first
\* and the third event, in that order.
C5_OrderPreserved ==
    Filtered =>
      LET idx == QualifyingIndices(all_ipos)
      IN  /\ Len(qualifying_ipos) = Len(idx)
          /\ \A k \in 1..Len(idx) :
                DerivedFrom(qualifying_ipos[k], all_ipos[idx[k]])
          /\ all_ipos = MOCK_IPO_DATA =>
                /\ Len(qualifying_ipos) = 2
                /\ DerivedFrom(qualifying_ipos[1], all_ipos[1])
                /\ DerivedFrom(qualifying_ipos[2], all_ipos[3])

\* C5 witness: the three mock records have been filtered to MEVOU then
\* TESTIPO.
C5_Witness ==
    /\ pc = "display"
    /\ all_ipos = MOCK_IPO_DATA
    /\ Len(qualifying_ipos) = 2
    /\ qualifying_ipos[1].symbol = MEVOU
    /\ qualifying_ipos[2].symbol = TESTIPO

\* C6 (as claimed): no run ends in an unhandled exception; every run that
\* ends has main returning 0 or 1, and a failed fetch continues as an
\* empty calendar.
C6_NoUnhandledCrash ==
    /\ pc # "crashed"
    /\ Ended => exit_status \in {0, 1}
    /\ (Filtered /\ \E i \in 1..Len(console) :
                       console[i] = "Error fetching IPO data")
          => all_ipos = <<>> /\ qualifying_ipos = <<>>

\* C7: every record of the output has all eight fields and an
\* offer_amount that is a number >= 200,000,000; a field whose source key
\* is absent from the raw event holds "N/A"; every event, whatever keys it
\* lacks, filters to at most one record; and the filter step leaves
\* all_ipos as it was.
C7_FullyPopulated ==
    /\ [](Filtered =>
            /\ \A k \in 1..Len(qualifying_ipos) :
                  /\ DOMAIN qualifying_ipos[k] = OutKeys
                  /\ qualifying_ipos[k].offer_amount[1] = "num"
                  /\ qualifying_ipos[k].offer_amount[2] >= 200000000
            /\ \A i \in 1..Len(all_ipos) :
                  LET out == filter_large_ipos(<<all_ipos[i]>>)
                  IN  /\ Len(out) <= 1
                      /\ out # <<>> =>
                            \A f \in FieldSource :
                               f[2] \notin DOMAIN all_ipos[i]
                                  => out[1][f[1]] = NA
            /\ Len(all_ipos) = 1 =>
                  qualifying_ipos = filter_large_ipos(all_ipos))
    /\ [][pc = "filter" => all_ipos' = all_ipos]_vars

\* C7 witness: an event that holds only totalSharesValue has been filtered
\* to a record whose seven other fields are "N/A".
C7_Witness ==
    /\ pc = "display"
    /\ Len(all_ipos) = 1
    /\ DOMAIN all_ipos[1] = {"totalSharesValue"}
    /\ Len(qualifying_ipos) = 1
    /\ \A f \in FieldSource : qualifying_ipos[1][f[1]] = NA

\* C8 (as claimed): once rendering is over for a non-empty qualifying
\* list, the body is the populated template with one row per record in
\* input order, the count of records in its header, and a ticker summary
\* whose ", "-separated tokens are the records' symbols in order.
C8_PopulatedRender ==
    (pc \notin {"start", "filter", "display", "format"}
       /\ qualifying_ipos # <<>>) =>
      /\ body.template = "populated"
      /\ Len(body.rows) = Len(qualifying_ipos)
      /\ \A k \in 1..Len(qualifying_ipos) :
            body.rows[k].ticker = qualifying_ipos[k].symbol[2]
      /\ body.count = Decimal(Len(qualifying_ipos))
      /\ SplitTokens(body.summary, 1, <<>>, <<>>) =
            [k \in 1..Len(qualifying_ipos) |-> qualifying_ipos[k].symbol[2]]

\* C9: an empty qualifying list always renders to the empty-state
\* template, which carries the threshold as "$200,000,000" and no table;
\* an empty fetch result gives an empty qualifying list, rendering cannot
\* fail on it, and the message built by send_email carries that document.
C9_EmptyState ==
    /\ format_email_body(<<>>) =
          [template |-> "empty", threshold |-> Threshold200M]
    /\ (qualifying_ipos = <<>> /\ Filtered) => pc # "crashed"
    /\ (qualifying_ipos = <<>>
          /\ pc \notin {"start", "filter", "display", "format"}) =>
          /\ body = [template |-> "empty", threshold |-> Threshold200M]
          /\ "rows" \notin DOMAIN body
    /\ (all_ipos = <<>> /\ Filtered) => qualifying_ipos = <<>>
    /\ (all_ipos = <<>> /\ msg.built) =>
          msg.html = [template |-> "empty", threshold |-> Threshold200M]

\* C9 witness: after a failed fetch, send_email has built its message
\* around the empty-state document.
C9_Witness ==
    /\ pc = "smtp_connect"
    /\ all_ipos = <<>>
    /\ console = <<"Error fetching IPO data">>
    /\ qualifying_ipos = <<>>
    /\ msg.built
    /\ msg.html.template = "empty"

\* C10: the session steps happen in the order open, starttls, login,
\* send_message; a message is sent only after starttls and a successful
\* login; at most one session is opened and one message sent; nothing
\* follows the close; and once send_email has returned, a session that was
\* opened is closed.
C10_SessionOrder ==
    /\ Cardinality(Pos("open")) <= 1
    /\ Cardinality(Pos("send_message")) <= 1
    /\ Cardinality(Pos("close")) <= 1
    /\ \A t \in Pos("starttls") : \E o \in Pos("open") : o < t
    /\ \A l \in Pos("login") : \E t \in Pos("starttls") : t < l
    /\ \A m \in Pos("send_message") : \E l \in Pos("login") : l < m
    /\ \A c \in Pos("close") : c = Len(smtp_log) /\ Pos("open") # {}
    /\ pc \in {"send_returned", "done"} =>
          (Pos("open") # {} => smtp_log[Len(smtp_log)] = "close")
    /\ success = "True" =>
          smtp_log = <<"open", "starttls", "login", "send_message", "close">>

\* C10 witness: the relay rejected the login and send_email returned with
\* the session closed and nothing sent.
C10_Witness ==
    /\ pc = "send_returned"
    /\ smtp_error = "SMTPAuthenticationError"
    /\ smtp_log = <<"open", "starttls", "close">>

====
